---- MODULE Spec2Model ----
(***************************************************************************)
(* auto_proxy: the Commander (Create / Delete / List), the GCPProvider     *)
(* retry-and-wait loops and the RecordManager, as one sequential process.  *)
(* Text values (zone, region, name, ...) are sequences of characters.      *)
(***************************************************************************)
EXTENDS Integers, Sequences, FiniteSets, TLC

(* ------------------------------ bounds --------------------------------- *)
\* longest persisted collection a Create is still started on
MaxRecords == 2
\* most non-DONE statuses one operation wait is made to see
MaxPending == 3
\* lines ansible-playbook writes to each of its pipes
MaxLines == 1
\* longest timeout waitForSSH is called with, in seconds
MaxTimeout == 6

(* ------------------------- program constants --------------------------- *)
\* maxRetries := 5 in CreateInstance / DeleteInstance / DeleteDisk
maxRetries == 5
\* gerr.Code >= 500
RetryableFloor == 500
\* iterations of Deploy's SSH loop
SshAttempts == 30
\* waitForSSH: seconds slept after a failed connection attempt
SleepInterval == 2
\* waitForSSH: seconds after which a connection attempt is given up
DialTimeout == 2

(* ------------------------------- text ---------------------------------- *)
Empty == << >>

HasPrefix(s, p) ==
  /\ Len(p) <= Len(s)
  /\ SubSeq(s, 1, Len(p)) = p

IsDash(c) == c = "-"
NotDash(c) == ~IsDash(c)
\* strings.ReplaceAll(s, "-", "")
RemoveDashes(s) == SelectSeq(s, NotDash)

\* name := "proxy-" + strings.ReplaceAll(selectedZone, "-", "")
ProxyName(zone) == <<"p", "r", "o", "x", "y", "-">> \o RemoveDashes(zone)

(* ----------------------- the provider's catalogue ---------------------- *)
RegionE == <<"e", "1">>
RegionW == <<"w", "2">>
Regions == {RegionE, RegionW}
ZoneEA == <<"e", "1", "-", "a">>
ZoneWB == <<"w", "2", "-", "b">>
AllZones == {ZoneEA, ZoneWB}
IPs == {"10.0.0.1"}
MachineTypes == {"e2-micro"}

\* var gcp_locations = map[string]string{...}, cut down to the regions used
gcp_locations == [r \in Regions |-> IF r = RegionE THEN <<"T", "W">> ELSE <<"O", "R">>]

\* regionToLocations: the display label of a region, the region itself when unmapped
regionToLocation(r) == IF r \in DOMAIN gcp_locations THEN gcp_locations[r] ELSE r
regionToLocations(regions) == {regionToLocation(r) : r \in regions}

\* reverseMap[v] = k for every k, v of gcp_locations; "" for a missing key
reverseMap(location) ==
  IF \E k \in DOMAIN gcp_locations : gcp_locations[k] = location
  THEN CHOOSE k \in DOMAIN gcp_locations : gcp_locations[k] = location
  ELSE Empty

\* ListZones: the zones whose name has the region as a prefix
ListZones(region) == {z \in AllZones : HasPrefix(z, region)}

(* ------------------------------ records -------------------------------- *)
\* type ProxyRecord struct
ProxyRecord(name, provider, region, zone, instanceID, ip, type, location) ==
  [Name |-> name, Provider |-> provider, Region |-> region, Zone |-> zone,
   InstanceID |-> instanceID, IP |-> ip, Type |-> type, Location |-> location]

\* the zero ProxyRecord
ZeroRecord == ProxyRecord(Empty, "", Empty, Empty, Empty, "", "", Empty)

\* a lookup that forgets the record kind
IsNamed(r, name) == r.Name = name

\* r.Name == name && r.Type == "instance"
IsInstanceNamed(r, name) == r.Name = name /\ r.Type = "instance"

\* a lookup that finds nothing
FindNone(records, name) == 0

\* for i, r := range records { if r.Name == name && r.Type == "instance" {...; break} }
\* the 1-based index of the first match, 0 when there is none
FindInstance(records, name) ==
  IF \E i \in 1..Len(records) : IsInstanceNamed(records[i], name)
  THEN CHOOSE i \in 1..Len(records) :
         /\ IsInstanceNamed(records[i], name)
         /\ \A j \in 1..(i - 1) : ~IsInstanceNamed(records[j], name)
  ELSE 0

\* the backing array after append(records[:i], records[i+1:]...): the tail is
\* copied one slot to the left and the last slot keeps its old value
ShiftLeft(arr, i) ==
  [j \in 1..Len(arr) |-> IF j >= i /\ j < Len(arr) THEN arr[j + 1] ELSE arr[j]]

\* a removal that moves the last element into the freed place instead
SwapWithLast(records, i) ==
  [j \in 1..(Len(records) - 1) |-> IF j = i THEN records[Len(records)] ELSE records[j]]

\* the slice append(records[:i], records[i+1:]...) returns
RemoveAt(records, i) == SubSeq(ShiftLeft(records, i), 1, Len(records) - 1)

(* --------------------------- retry policy ------------------------------ *)
\* a submission error: a *googleapi.Error with its Code, or any other error
NoStatus == [google |-> FALSE, code |-> 0]
GoogleErr(c) == [google |-> TRUE, code |-> c]
SubmitErrors == {NoStatus, GoogleErr(404), GoogleErr(499), GoogleErr(500), GoogleErr(503)}

\* a policy that also retries client errors
RetryableFrom400(e) == e.google /\ e.code >= 400

\* gerr, ok := err.(*googleapi.Error); ok && gerr.Code >= 500
Retryable(e) == e.google /\ e.code >= RetryableFloor

\* a linear wait in place of the doubling one
BackoffLinear(attempt) == 2 * attempt

\* wait := time.Duration(1<<uint(attempt)) * time.Second
Backoff(attempt) == 2 ^ attempt

\* a wait that ends on any status but PENDING
IsDoneUnlessPending(status) == status # "PENDING"

\* operation.Status == "DONE"
IsDone(status) == status = "DONE"

\* a wait that never looks at operation.Error
OperationErrorIgnored(error) == FALSE

\* operation.Error != nil
OperationFailed(error) == error

Statuses == {"PENDING", "RUNNING", "DONE"}

\* a loop that makes one attempt more
LoopContinuesOnceMore(n) == n < maxRetries + 1

\* for attempt := range maxRetries
LoopContinues(n) == n < maxRetries

(* --------------------------- record store ------------------------------ *)
\* json.MarshalIndent(records, "", "  "): one object per record, keyed by the json tags
MarshalRecord(r) ==
  [name |-> r.Name, provider |-> r.Provider, region |-> r.Region, zone |-> r.Zone,
   instance_id |-> r.InstanceID, ip |-> r.IP, type |-> r.Type, location |-> r.Location]

Marshal(rs) == [i \in 1..Len(rs) |-> MarshalRecord(rs[i])]

\* a decoding that takes region for zone and zone for region
UnmarshalSwapped(o) ==
  [Name |-> o.name, Provider |-> o.provider, Region |-> o.zone, Zone |-> o.region,
   InstanceID |-> o.instance_id, IP |-> o.ip, Type |-> o.type, Location |-> o.location]

\* json.Unmarshal(data, &records)
UnmarshalRecord(o) ==
  ProxyRecord(o.name, o.provider, o.region, o.zone, o.instance_id, o.ip, o.type, o.location)
Unmarshal(data) == [i \in 1..Len(data) |-> UnmarshalRecord(data[i])]

(* ------------------------------- state --------------------------------- *)
VARIABLES
  file,            \* the JSON array proxy_records.json holds, empty when it holds none
  exists,          \* whether proxy_records.json exists
  cut,             \* whether it holds no document but the leading bytes of one, any
                   \* number from 0 on: it was truncated by a write that then failed
  instances,       \* the provider's instances, as <<zone, name>>
  disks,           \* the provider's disks, as <<zone, name>>
  pc,              \* where the Commander is
  cmd,             \* the command main dispatched: "create", "delete", "list"
  name,            \* Create / Delete: name
  selected,        \* Create: selectedRegion, selectedZone, selectedLocation, selectedType
  created,         \* Create: instanceID and ip returned by CreateInstance
  records,         \* Create / Delete: the slice records
  backing,         \* Delete: the array behind records
  instanceRecord,  \* Delete: index in backing that instanceRecord points at, 0 for nil
  info,            \* Delete: info returned by GetInstanceInfo
  diskRecord,      \* Delete: diskRecord
  fn,              \* the provider function running, "" for none
  arg,             \* its zone and resource name
  ppc,             \* where the provider function is
  attempt,         \* its loop variable
  operation,       \* the operation its latest status poll returned
  perr,            \* the error it returned, "" for nil
  pout,            \* the instanceID and ip CreateInstance returned
  submits,         \* history: submissions made by the running provider function
  polls,           \* history: status polls made for its current operation
  nonDone,         \* history: how many of them reported a status other than DONE
  waits,           \* history: its backoff sleeps, in seconds
  lastErr,         \* history: the error of its latest failed submission
  pollErr,         \* history: the error of its failed status poll
  dpc,             \* where Deploy is
  sshAttempt,      \* Deploy: the loop variable i of its SSH loop
  sshReady,        \* history: how the SSH loop ended, "" while it has not: "ready" by
                   \* its break, "not ready" with its 30 iterations used up; in the
                   \* single-file program, what waitForSSH returned: "ready" for nil
  started,         \* Deploy: whether ansible-playbook was started
  exited,          \* how ansible-playbook exited: "" while it has not, "ok", "failed"
  written,         \* the lines ansible-playbook has written to stdout and to stderr
  pending,         \* those still unread in each pipe
  scanning,        \* whether the goroutine scanning each pipe is running
  derr,            \* history: what Deploy returned, "" while it has not
  now,             \* waitForSSH: the clock, in seconds since the call of deployProxy
  deadline,        \* waitForSSH: deadline
  dials,           \* history: when each connection attempt began and whether it succeeded
  calls,           \* history: collaborator calls made by the running command
  saved,           \* history: the collections it handed to Save
  wrote,           \* history: how its latest write of proxy_records.json ended, "" when
                   \* it made none
  file0,           \* history: the persisted collection when it started
  ret,             \* the error the command returned, "nil" for none
  out              \* what it printed last

cloud == <<instances, disks>>
store == <<file, exists, cut>>
locals == <<cmd, name, selected, created, records, backing, instanceRecord, info, diskRecord>>
provider == <<fn, arg, ppc, attempt, operation, perr, pout>>
providerHistory == <<submits, polls, nonDone, waits, lastErr, pollErr>>
deployer == <<dpc, sshAttempt, sshReady, started, exited, written, pending, scanning, derr>>
prober == <<now, deadline, dials>>
history == <<deployer, prober, calls, saved, wrote, file0, ret, out>>
vars == <<store, cloud, pc, locals, provider, providerHistory, history>>

NoError == [google |-> FALSE, code |-> -1]
NoArg == [zone |-> Empty, id |-> Empty]
NoSelection == [region |-> Empty, zone |-> Empty, location |-> Empty, type |-> ""]
NoInstance == [instanceID |-> Empty, ip |-> ""]
\* InstanceInfo{}
NoInfo == [IP |-> "", DiskID |-> Empty]
NoOperation == [Status |-> "", Error |-> FALSE]

\* what RecordManager.Load returns when it succeeds
\* the two pipes of ansible-playbook
Pipes == {"stdout", "stderr"}
NoLines == [s \in Pipes |-> 0]
NotScanning == [s \in Pipes |-> FALSE]

\* the collection a readable proxy_records.json holds: the document in it, none
\* when the file does not exist or its content is cut short
Persisted == IF exists /\ ~cut THEN Unmarshal(file) ELSE << >>

Call(f, zone, id) == [f |-> f, zone |-> zone, id |-> id]

Init ==
  /\ file = << >>
  /\ exists = FALSE
  /\ cut = FALSE
  /\ instances = {}
  /\ disks = {}
  /\ pc = "idle"
  /\ cmd = ""
  /\ name = Empty
  /\ selected = NoSelection
  /\ created = NoInstance
  /\ records = << >>
  /\ backing = << >>
  /\ instanceRecord = 0
  /\ info = NoInfo
  /\ diskRecord = ZeroRecord
  /\ fn = ""
  /\ arg = NoArg
  /\ ppc = "none"
  /\ attempt = 0
  /\ operation = NoOperation
  /\ perr = ""
  /\ pout = NoInstance
  /\ submits = 0
  /\ polls = 0
  /\ nonDone = 0
  /\ waits = << >>
  /\ lastErr = NoError
  /\ pollErr = NoError
  /\ dpc = "none"
  /\ sshAttempt = 0
  /\ sshReady = ""
  /\ started = FALSE
  /\ exited = ""
  /\ written = NoLines
  /\ pending = NoLines
  /\ scanning = NotScanning
  /\ derr = ""
  /\ now = 0
  /\ deadline = 0
  /\ dials = << >>
  /\ calls = << >>
  /\ saved = << >>
  /\ wrote = ""
  /\ file0 = << >>
  /\ ret = ""
  /\ out = ""

(* ------------------------- the provider (cloud) ------------------------ *)
Key(a) == <<a.zone, a.id>>

\* whether the provider accepts the submission: Instances.Insert, in one of its zones
\* and with one of its machine types (Create's selectedType), of a name the zone does
\* not hold yet; Instances.Delete / Disks.Delete of a resource it holds
Accepts(f, a) ==
  CASE f = "CreateInstance" -> /\ a.zone \in AllZones
                               /\ selected.type \in MachineTypes
                               /\ Key(a) \notin instances
    [] f = "DeleteInstance" -> Key(a) \in instances
    [] f = "DeleteDisk" -> Key(a) \in disks

\* whether the operation can complete without error: an instance's boot disk is
\* created under the instance's name, which no disk of the zone may hold already
CanComplete(f, a) == f = "CreateInstance" => Key(a) \notin disks

\* the provider's resources once the operation has completed without error
InstancesAfter(f, a) ==
  CASE f = "CreateInstance" -> instances \cup {Key(a)}
    [] f = "DeleteInstance" -> instances \ {Key(a)}
    [] f = "DeleteDisk" -> instances
DisksAfter(f, a) ==
  CASE f = "CreateInstance" -> disks \cup {Key(a)}
    [] f = "DeleteInstance" -> disks
    [] f = "DeleteDisk" -> disks \ {Key(a)}

\* disk.Source of the instance's boot disk ends in the instance's name
BootDisk(zone, instanceID) == instanceID

(* ---- GCPProvider.CreateInstance / DeleteInstance / DeleteDisk --------- *)
\* entry of the function: the local state before the first loop iteration
Enter(f, zone, id) ==
  /\ fn' = f
  /\ arg' = [zone |-> zone, id |-> id]
  /\ ppc' = "submit"
  /\ attempt' = 0
  /\ operation' = NoOperation
  /\ perr' = ""
  /\ pout' = NoInstance
  /\ submits' = 0
  /\ polls' = 0
  /\ nonDone' = 0
  /\ waits' = << >>
  /\ lastErr' = NoError
  /\ pollErr' = NoError

\* op, err := ...Insert / Delete(...).Do() with err == nil
SubmitOk ==
  /\ ppc = "submit"
  /\ Accepts(fn, arg)
  /\ submits' = submits + 1
  /\ ppc' = "poll"
  /\ UNCHANGED <<store, cloud, pc, locals, history>>
  /\ UNCHANGED <<fn, arg, attempt, operation, perr, pout, polls, nonDone, waits, lastErr, pollErr>>

\* ... with err != nil: sleep and continue when retryable, return otherwise; the
\* return after the loop when the attempts are used up
SubmitFails(e) ==
  /\ ppc = "submit"
  /\ submits' = submits + 1
  /\ lastErr' = e
  /\ IF Retryable(e)
     THEN /\ waits' = Append(waits, Backoff(attempt))
          /\ attempt' = attempt + 1
          /\ IF LoopContinues(attempt + 1)
             THEN ppc' = "submit" /\ perr' = perr
             ELSE ppc' = "returned" /\ perr' = "retries exhausted"
     ELSE /\ ppc' = "returned"
          /\ perr' = "non-retryable error"
          /\ UNCHANGED <<waits, attempt>>
  /\ UNCHANGED <<store, cloud, pc, locals, history>>
  /\ UNCHANGED <<fn, arg, operation, pout, polls, nonDone, pollErr>>

\* the errors of a status poll: below and above the retry threshold, and without code
PollErrors == {NoStatus, GoogleErr(404), GoogleErr(503)}

\* a status poll whose error is retried when its code is 500 or more
PollErrorFatalBelow500(e) == ~(e.google /\ e.code >= RetryableFloor)

\* if err != nil { return ..., fmt.Errorf("failed to check operation status: ...") },
\* whatever the error is
PollErrorFatal(e) == TRUE

\* operation, err := ...ZoneOperations.Get(...).Do() with err != nil; the operation
\* itself goes on at the provider and may have completed
PollFails(e, completed) ==
  /\ ppc = "poll"
  /\ completed => CanComplete(fn, arg)
  /\ polls' = polls + 1
  /\ pollErr' = e
  /\ IF PollErrorFatal(e)
     THEN ppc' = "returned" /\ perr' = "failed to check operation status"
     ELSE ppc' = "poll" /\ perr' = perr
  /\ instances' = IF completed THEN InstancesAfter(fn, arg) ELSE instances
  /\ disks' = IF completed THEN DisksAfter(fn, arg) ELSE disks
  /\ UNCHANGED <<store, pc, locals, history>>
  /\ UNCHANGED <<fn, arg, attempt, operation, pout, submits, nonDone, waits, lastErr>>

\* ... with err == nil: return on DONE (an error when operation.Error is set),
\* sleep 2 seconds and poll again otherwise
Poll(status, opError) ==
  /\ ppc = "poll"
  /\ status # "DONE" => (~opError /\ nonDone < MaxPending)
  /\ (status = "DONE" /\ ~opError) => CanComplete(fn, arg)
  /\ polls' = polls + 1
  /\ nonDone' = IF status = "DONE" THEN nonDone ELSE nonDone + 1
  /\ operation' = [Status |-> status, Error |-> opError]
  /\ instances' = IF status = "DONE" /\ ~opError THEN InstancesAfter(fn, arg) ELSE instances
  /\ disks' = IF status = "DONE" /\ ~opError THEN DisksAfter(fn, arg) ELSE disks
  /\ IF IsDone(status)
     THEN IF OperationFailed(opError)
          THEN ppc' = "returned" /\ perr' = "operation failed"
          ELSE IF fn = "CreateInstance"
               THEN ppc' = "get" /\ perr' = perr
               ELSE ppc' = "returned" /\ perr' = ""
     ELSE ppc' = "poll" /\ perr' = perr
  /\ UNCHANGED <<store, pc, locals, history>>
  /\ UNCHANGED <<fn, arg, attempt, pout, submits, waits, lastErr, pollErr>>

\* CreateInstance: instanceInfo, err := ...Instances.Get(...).Do(); return name, ip, nil
GetCreated(ok, ip) ==
  /\ ppc = "get"
  /\ ok => Key(arg) \in instances
  /\ ppc' = "returned"
  /\ perr' = IF ok THEN "" ELSE "failed to get instance info"
  /\ pout' = IF ok THEN [instanceID |-> arg.id, ip |-> ip] ELSE NoInstance
  /\ UNCHANGED <<store, cloud, pc, locals, history, providerHistory>>
  /\ UNCHANGED <<fn, arg, attempt, operation>>

(* ------------------------------ Commander ------------------------------ *)
Plain(f) == Call(f, Empty, Empty)

\* the command returns: r is its error ("nil" for none), o the last line it printed
Finish(r, o) ==
  /\ pc' = "done"
  /\ ret' = r
  /\ out' = o

\* how os.WriteFile(name, data, 0644) may end: "ok"; "open" when OpenFile with
\* O_WRONLY|O_CREATE|O_TRUNC fails; "write" when the file was opened and truncated and
\* f.Write then fails; "close" when only f.Close fails
WriteOutcomes == {"ok", "open", "write", "close"}

\* os.WriteFile of the document data over proxy_records.json: a failed open leaves the
\* file as it was; a failed write leaves it truncated, with none or some of the leading
\* bytes of the document, which json.Unmarshal rejects whatever their number; a failed
\* close comes after the whole document was written
WriteFile(data, how) ==
  /\ wrote' = how
  /\ CASE how = "open" -> UNCHANGED store
       [] how = "write" -> /\ file' = << >>
                           /\ exists' = TRUE
                           /\ cut' = TRUE
       [] OTHER -> /\ file' = data
                   /\ exists' = TRUE
                   /\ cut' = FALSE

\* a Save that runs twice
SaveTwice(rs, how) ==
  /\ WriteFile(Marshal(rs), how)
  /\ saved' = saved \o <<rs, rs>>

\* RecordManager.Save(rs): json.MarshalIndent, which cannot fail on a slice of structs
\* of strings, then os.WriteFile; Save returns nil exactly when os.WriteFile does
Save(rs, how) ==
  /\ WriteFile(Marshal(rs), how)
  /\ saved' = Append(saved, rs)

\* a Load that fails when there is no file
LoadErrorWhenMissing(readable) == ~exists \/ ~readable \/ cut

\* RecordManager.Load returns an error: the file exists and os.ReadFile fails, or
\* json.Unmarshal fails on a document cut short; a file that does not exist gives the
\* empty collection and no error
LoadError(readable) == exists /\ (~readable \/ cut)

\* a Create that appends a disk-kind record
NewDiskRecord ==
  ProxyRecord(name, "gcp", selected.region, selected.zone, created.instanceID,
              created.ip, "disk", selected.location)

\* the record Commander.Create appends
NewRecord ==
  ProxyRecord(name, "gcp", selected.region, selected.zone, created.instanceID,
              created.ip, "instance", selected.location)

\* what survey.AskOne leaves in the variable it was given: one of the options, or the
\* zero value "" when the prompt fails (no terminal, interrupt, no option to choose
\* from), its error being dropped
Answers(options, zero) == options \cup {zero}

\* the platforms offered, as strings.ToUpper gives them
Platforms == {"GCP"}

\* Commander.Create up to the call of CreateInstance: the prompts and the three
\* listings
CreateStart(platform, failAt, location, zone, mtype) ==
  /\ pc = "idle"
  /\ Len(Persisted) < MaxRecords
  /\ cmd' = "create"
  /\ file0' = Persisted
  /\ UNCHANGED <<store, cloud, saved, wrote, deployer, prober>>
  /\ UNCHANGED <<created, records, backing, instanceRecord, info, diskRecord>>
  /\ IF failAt = "ListRegions"
     THEN /\ calls' = <<Plain("ListRegions")>>
          /\ Finish("error listing regions", "")
          /\ UNCHANGED <<name, selected, provider, providerHistory>>
     ELSE IF platform \notin Platforms
     THEN /\ calls' = <<Plain("ListRegions")>>
          /\ Finish("invalid platform", "")
          /\ UNCHANGED <<name, selected, provider, providerHistory>>
     ELSE IF failAt = "ListZones"
     THEN /\ calls' = <<Plain("ListRegions"), Plain("ListZones")>>
          /\ Finish("error listing zones", "")
          /\ selected' = [NoSelection EXCEPT !.region = reverseMap(location),
                                               !.location = location]
          /\ UNCHANGED <<name, provider, providerHistory>>
     ELSE IF failAt = "ListMachineTypes"
     THEN /\ calls' = <<Plain("ListRegions"), Plain("ListZones"), Plain("ListMachineTypes")>>
          /\ Finish("error listing machine types", "")
          /\ selected' = [region |-> reverseMap(location), zone |-> zone,
                          location |-> location, type |-> ""]
          /\ UNCHANGED <<name, provider, providerHistory>>
     ELSE /\ selected' = [region |-> reverseMap(location), zone |-> zone,
                          location |-> location, type |-> mtype]
          /\ name' = ProxyName(zone)
          /\ calls' = <<Plain("ListRegions"), Plain("ListZones"), Plain("ListMachineTypes"),
                        Call("CreateInstance", zone, ProxyName(zone))>>
          /\ Enter("CreateInstance", zone, ProxyName(zone))
          /\ pc' = "Create.CreateInstance"
          /\ UNCHANGED <<ret, out>>

\* the provider function has returned nil and its result was taken: its loop variable
\* and the history of its submissions and polls are dropped
Left ==
  /\ ppc' = "none"
  /\ attempt' = 0
  /\ submits' = 0
  /\ polls' = 0
  /\ nonDone' = 0
  /\ waits' = << >>
  /\ lastErr' = NoError
  /\ pollErr' = NoError

\* a Create that goes on after a failed CreateInstance
CreateInstanceErrorIgnored(err) == FALSE

\* instanceID, ip, err := c.provider.CreateInstance(...); if err != nil
CreateInstanceAborts(err) == err # ""

\* instanceID, ip, err := c.provider.CreateInstance(...); if err != nil { return ... },
\* and the call of Deploy
CreateInstanceReturns ==
  /\ pc = "Create.CreateInstance"
  /\ ppc = "returned"
  /\ IF CreateInstanceAborts(perr)
     THEN /\ Finish("error creating instance", "")
          /\ UNCHANGED <<created, calls, dpc>>
          /\ UNCHANGED <<ppc, attempt, providerHistory>>
     ELSE /\ created' = pout
          /\ calls' = Append(calls, Plain("Deploy"))
          /\ dpc' = "inventory"
          /\ pc' = "Create.Deploy"
          /\ Left
          /\ UNCHANGED <<ret, out>>
  /\ UNCHANGED <<store, cloud, fn, arg, operation, perr, pout, saved, wrote, file0>>
  /\ UNCHANGED <<sshAttempt, sshReady, started, exited, written, pending, scanning, derr, prober>>
  /\ UNCHANGED <<cmd, name, selected, records, backing, instanceRecord, info, diskRecord>>

\* a Create that goes on after a failed Deploy
DeployErrorIgnored(err) == FALSE

\* if err := c.deployer.Deploy(ip); err != nil
DeployAborts(err) == err # "nil"

(* ---------------------- AnsibleProxyDeployer.Deploy -------------------- *)
\* Deploy returns err
DeployReturn(err) ==
  /\ dpc' = "returned"
  /\ derr' = err

\* os.WriteFile("inventory.ini", ...), whose error is returned
WriteInventory(ok) ==
  /\ dpc = "inventory"
  /\ IF ok THEN dpc' = "playbook" /\ UNCHANGED derr ELSE DeployReturn("error")
  /\ UNCHANGED <<store, cloud, pc, locals, provider, providerHistory>>
  /\ UNCHANGED <<sshAttempt, sshReady, started, exited, written, pending, scanning>>
  /\ UNCHANGED <<prober, calls, saved, wrote, file0, ret, out>>

\* os.WriteFile("playbook.yml", ...); if err != nil { return nil }
WritePlaybook(ok) ==
  /\ dpc = "playbook"
  /\ IF ok THEN dpc' = "ssh" /\ UNCHANGED derr ELSE DeployReturn("nil")
  /\ UNCHANGED <<store, cloud, pc, locals, provider, providerHistory>>
  /\ UNCHANGED <<sshAttempt, sshReady, started, exited, written, pending, scanning>>
  /\ UNCHANGED <<prober, calls, saved, wrote, file0, ret, out>>

\* for i := 0; i < 30; i++
SshLoopContinues(n) == n < SshAttempts

\* one iteration of the SSH loop: break when ssh ... exit ran without error, sleep
\* 2 seconds and go on otherwise; the statements after the loop follow in both
\* cases, where i is out of scope
RunSsh(ok) ==
  /\ dpc = "ssh"
  /\ IF ok
     THEN /\ sshReady' = "ready"
          /\ sshAttempt' = 0
          /\ dpc' = "start"
     ELSE IF SshLoopContinues(sshAttempt + 1)
     THEN /\ sshAttempt' = sshAttempt + 1
          /\ UNCHANGED <<sshReady, dpc>>
     ELSE /\ sshReady' = "not ready"
          /\ sshAttempt' = 0
          /\ dpc' = "start"
  /\ UNCHANGED <<store, cloud, pc, locals, provider, providerHistory>>
  /\ UNCHANGED <<started, exited, written, pending, scanning, derr>>
  /\ UNCHANGED <<prober, calls, saved, wrote, file0, ret, out>>

StartFailures == {"none", "StdoutPipe", "StderrPipe", "Start"}

\* cmd.StdoutPipe(), cmd.StderrPipe(), cmd.Start(), whose errors are returned, and
\* the two go statements
StartAnsible(failAt) ==
  /\ dpc = "start"
  /\ IF failAt = "none"
     THEN /\ started' = TRUE
          /\ scanning' = [s \in Pipes |-> TRUE]
          /\ dpc' = "wait"
          /\ UNCHANGED derr
     ELSE /\ DeployReturn("error")
          /\ UNCHANGED <<started, scanning>>
  /\ UNCHANGED <<store, cloud, pc, locals, provider, providerHistory>>
  /\ UNCHANGED <<sshAttempt, sshReady, exited, written, pending>>
  /\ UNCHANGED <<prober, calls, saved, wrote, file0, ret, out>>

\* ansible-playbook writes a line to one of its pipes
AnsibleWrites(s) ==
  /\ started
  /\ exited = ""
  /\ written[s] < MaxLines
  /\ written' = [written EXCEPT ![s] = @ + 1]
  /\ pending' = [pending EXCEPT ![s] = @ + 1]
  /\ UNCHANGED <<store, cloud, pc, locals, provider, providerHistory>>
  /\ UNCHANGED <<dpc, sshAttempt, sshReady, started, exited, scanning, derr>>
  /\ UNCHANGED <<prober, calls, saved, wrote, file0, ret, out>>

\* ansible-playbook exits, with status 0 or another
AnsibleExits(how) ==
  /\ started
  /\ exited = ""
  /\ exited' = how
  /\ UNCHANGED <<store, cloud, pc, locals, provider, providerHistory>>
  /\ UNCHANGED <<dpc, sshAttempt, sshReady, started, written, pending, scanning, derr>>
  /\ UNCHANGED <<prober, calls, saved, wrote, file0, ret, out>>

\* cmd.Wait() has closed the read ends of the pipes
Closed == started /\ dpc = "returned"

\* scanner.Scan() returns true: the goroutine reads a line and prints it
Scan(s) ==
  /\ scanning[s]
  /\ ~Closed
  /\ pending[s] > 0
  /\ pending' = [pending EXCEPT ![s] = @ - 1]
  /\ UNCHANGED <<store, cloud, pc, locals, provider, providerHistory>>
  /\ UNCHANGED <<dpc, sshAttempt, sshReady, started, exited, written, scanning, derr>>
  /\ UNCHANGED <<prober, calls, saved, wrote, file0, ret, out>>

\* scanner.Scan() returns false, at the end of the stream or on the closed pipe, and
\* the goroutine ends
ScanEnds(s) ==
  /\ scanning[s]
  /\ Closed \/ (exited # "" /\ pending[s] = 0)
  /\ scanning' = [scanning EXCEPT ![s] = FALSE]
  /\ UNCHANGED <<store, cloud, pc, locals, provider, providerHistory>>
  /\ UNCHANGED <<dpc, sshAttempt, sshReady, started, exited, written, pending, derr>>
  /\ UNCHANGED <<prober, calls, saved, wrote, file0, ret, out>>

\* cmd.Wait(): returns once ansible-playbook has exited, closing the pipes; Deploy
\* returns its error
Wait ==
  /\ dpc = "wait"
  /\ exited # ""
  /\ DeployReturn(IF exited = "ok" THEN "nil" ELSE "error")
  /\ UNCHANGED <<store, cloud, pc, locals, provider, providerHistory>>
  /\ UNCHANGED <<sshAttempt, sshReady, started, exited, written, pending, scanning>>
  /\ UNCHANGED <<prober, calls, saved, wrote, file0, ret, out>>

\* if err := c.deployer.Deploy(ip); err != nil { return ... }
DeployReturns ==
  /\ pc = "Create.Deploy"
  /\ dpc = "returned"
  /\ IF DeployAborts(derr)
     THEN Finish("error deploying proxy", "")
     ELSE pc' = "Create.Load" /\ UNCHANGED <<ret, out>>
  /\ UNCHANGED <<store, cloud, locals, provider, providerHistory, deployer, prober, calls, saved, wrote, file0>>

\* records, err := c.recordManager.Load(); if err != nil { return ... }
CreateLoad(ok) ==
  /\ pc = "Create.Load"
  /\ calls' = Append(calls, Plain("Load"))
  /\ IF ~LoadError(ok)
     THEN /\ records' = Persisted
          /\ pc' = "Create.Save"
          /\ UNCHANGED <<ret, out>>
     ELSE /\ Finish("error loading records", "")
          /\ UNCHANGED records
  /\ UNCHANGED <<store, cloud, provider, providerHistory, deployer, prober, saved, wrote, file0>>
  /\ UNCHANGED <<cmd, name, selected, created, backing, instanceRecord, info, diskRecord>>

\* records = append(records, ProxyRecord{...}); c.recordManager.Save(records)
CreateSave(how) ==
  /\ pc = "Create.Save"
  /\ records' = Append(records, NewRecord)
  /\ calls' = Append(calls, Plain("Save"))
  /\ Save(Append(records, NewRecord), how)
  /\ IF how = "ok"
     THEN Finish("nil", "Shadowsocks proxy created")
     ELSE Finish("error saving records", "")
  /\ UNCHANGED <<cloud, provider, providerHistory, deployer, prober, file0>>
  /\ UNCHANGED <<cmd, name, selected, created, backing, instanceRecord, info, diskRecord>>

\* *instanceRecord
Deref(arr, ptr) == arr[ptr]

\* Commander.Delete up to the not-found return: Load and the lookup of the record
DeleteStart(n, ok) ==
  /\ pc = "idle"
  /\ cmd' = "delete"
  /\ name' = n
  /\ file0' = Persisted
  /\ calls' = <<Plain("Load")>>
  /\ IF LoadError(ok)
     THEN /\ Finish("error loading records", "")
          /\ UNCHANGED <<records, backing, instanceRecord>>
     ELSE /\ records' = Persisted
          /\ backing' = Persisted
          /\ instanceRecord' = FindInstance(Persisted, n)
          /\ IF FindInstance(Persisted, n) = 0
             THEN Finish("nil", "Proxy not found")
             ELSE pc' = "Delete.GetInstanceInfo" /\ UNCHANGED <<ret, out>>
  /\ UNCHANGED <<store, cloud, provider, providerHistory, saved, wrote, deployer, prober>>
  /\ UNCHANGED <<selected, created, info, diskRecord>>

\* info, err := c.provider.GetInstanceInfo(...), whose failure is only logged, and
\* the call of DeleteInstance
DeleteGetInstanceInfo(ok, ip) ==
  /\ pc = "Delete.GetInstanceInfo"
  /\ LET r == Deref(backing, instanceRecord) IN
       /\ ok => <<r.Zone, r.InstanceID>> \in instances
       /\ info' = IF ok THEN [IP |-> ip, DiskID |-> BootDisk(r.Zone, r.InstanceID)]
                        ELSE NoInfo
       /\ calls' = calls \o <<Call("GetInstanceInfo", r.Zone, r.InstanceID),
                              Call("DeleteInstance", r.Zone, r.InstanceID)>>
       /\ Enter("DeleteInstance", r.Zone, r.InstanceID)
  /\ pc' = "Delete.DeleteInstance"
  /\ UNCHANGED <<store, cloud, deployer, prober, saved, wrote, file0, ret, out>>
  /\ UNCHANGED <<cmd, name, selected, created, records, backing, instanceRecord, diskRecord>>

\* the disk record Delete prepares, read through instanceRecord
DiskRecordOf(r, n, diskID) ==
  ProxyRecord(n, r.Provider, r.Region, r.Zone, diskID, "", "disk", r.Location)

\* a Delete that deletes a disk whatever GetInstanceInfo returned
AnyInfoHasBootDisk(inf) == TRUE

\* if info.DiskID != ""
HasBootDisk(inf) == inf.DiskID # Empty

\* a Delete that goes on after a failed DeleteInstance
DeleteInstanceErrorIgnored(err) == FALSE

\* if err := c.provider.DeleteInstance(...); err != nil
DeleteInstanceAborts(err) == err # ""

\* if err := c.provider.DeleteInstance(...); err != nil { ...; return nil }, the
\* removal of the record, and the call of DeleteDisk when a boot disk was found
DeleteInstanceReturns ==
  /\ pc = "Delete.DeleteInstance"
  /\ ppc = "returned"
  /\ IF DeleteInstanceAborts(perr)
     THEN /\ Finish("nil", "Failed to delete instance")
          /\ UNCHANGED <<records, backing, diskRecord, provider, providerHistory, calls>>
     ELSE LET i == FindInstance(records, name)
              arr == IF i = 0 THEN backing ELSE ShiftLeft(backing, i)
              r == Deref(arr, instanceRecord)
          IN /\ backing' = arr
             /\ records' = IF i = 0 THEN records ELSE RemoveAt(records, i)
             /\ UNCHANGED <<ret, out>>
             /\ IF HasBootDisk(info)
                THEN /\ diskRecord' = DiskRecordOf(r, name, info.DiskID)
                     /\ calls' = Append(calls, Call("DeleteDisk", r.Zone, info.DiskID))
                     /\ Enter("DeleteDisk", r.Zone, info.DiskID)
                     /\ pc' = "Delete.DeleteDisk"
                ELSE /\ pc' = "Delete.Save"
                     /\ UNCHANGED <<diskRecord, provider, providerHistory, calls>>
  /\ UNCHANGED <<store, cloud, deployer, prober, saved, wrote, file0>>
  /\ UNCHANGED <<cmd, name, selected, created, instanceRecord, info>>

\* if err := c.provider.DeleteDisk(...); err != nil { records = append(records, diskRecord) }
DeleteDiskReturns ==
  /\ pc = "Delete.DeleteDisk"
  /\ ppc = "returned"
  /\ IF perr # ""
     THEN /\ records' = Append(records, diskRecord)
          /\ backing' = [backing EXCEPT ![Len(records) + 1] = diskRecord]
          /\ out' = "Failed to delete disk"
     ELSE UNCHANGED <<records, backing, out>>
  /\ pc' = "Delete.Save"
  /\ UNCHANGED <<store, cloud, provider, providerHistory, deployer, prober, calls, saved, wrote, file0, ret>>
  /\ UNCHANGED <<cmd, name, selected, created, instanceRecord, info, diskRecord>>

\* if err := c.recordManager.Save(records); err != nil { return ... }; return nil
DeleteSave(how) ==
  /\ pc = "Delete.Save"
  /\ calls' = Append(calls, Plain("Save"))
  /\ Save(records, how)
  /\ IF how = "ok"
     THEN Finish("nil", "Proxy deleted")
     ELSE Finish("error saving records", out)
  /\ UNCHANGED <<cloud, locals, provider, providerHistory, deployer, prober, file0>>

\* Commander.List
List(ok) ==
  /\ pc = "idle"
  /\ cmd' = "list"
  /\ file0' = Persisted
  /\ calls' = <<Plain("Load")>>
  /\ IF LoadError(ok)
     THEN Finish("error loading records", "") /\ UNCHANGED records
     ELSE /\ records' = Persisted
          /\ Finish("nil", IF Len(Persisted) = 0 THEN "No proxies found." ELSE "Name: ...")
  /\ UNCHANGED <<store, cloud, provider, providerHistory, saved, wrote, deployer, prober>>
  /\ UNCHANGED <<name, selected, created, backing, instanceRecord, info, diskRecord>>

\* main returns and the process ends; the next command starts from fresh locals
Exit ==
  /\ pc = "done"
  /\ pc' = "idle"
  /\ cmd' = ""
  /\ name' = Empty
  /\ selected' = NoSelection
  /\ created' = NoInstance
  /\ records' = << >>
  /\ backing' = << >>
  /\ instanceRecord' = 0
  /\ info' = NoInfo
  /\ diskRecord' = ZeroRecord
  /\ fn' = ""
  /\ arg' = NoArg
  /\ ppc' = "none"
  /\ attempt' = 0
  /\ operation' = NoOperation
  /\ perr' = ""
  /\ pout' = NoInstance
  /\ submits' = 0
  /\ polls' = 0
  /\ nonDone' = 0
  /\ waits' = << >>
  /\ lastErr' = NoError
  /\ pollErr' = NoError
  /\ dpc' = "none"
  /\ sshAttempt' = 0
  /\ sshReady' = ""
  /\ started' = FALSE
  /\ exited' = ""
  /\ written' = NoLines
  /\ pending' = NoLines
  /\ scanning' = NotScanning
  /\ derr' = ""
  /\ now' = 0
  /\ deadline' = 0
  /\ dials' = << >>
  /\ calls' = << >>
  /\ saved' = << >>
  /\ wrote' = ""
  /\ file0' = << >>
  /\ ret' = ""
  /\ out' = ""
  /\ UNCHANGED <<store, cloud>>

\* the names main may pass to Delete: those Create gives, and one it never gives
DeleteNames == {ProxyName(z) : z \in AllZones} \cup {<<"x">>}

\* how ansible-playbook may exit
ExitStatuses == {"ok", "failed"}

ListingFailures == {"none", "ListRegions", "ListZones", "ListMachineTypes"}

Next ==
  \/ \E platform \in Answers(Platforms, ""), failAt \in ListingFailures :
       \E location \in Answers(regionToLocations(Regions), Empty) :
         \E zone \in Answers(ListZones(reverseMap(location)), Empty) :
           \E mtype \in Answers(MachineTypes, "") :
             CreateStart(platform, failAt, location, zone, mtype)
  \/ CreateInstanceReturns
  \/ \E ok \in BOOLEAN : WriteInventory(ok)
  \/ \E ok \in BOOLEAN : WritePlaybook(ok)
  \/ \E ok \in BOOLEAN : RunSsh(ok)
  \/ \E failAt \in StartFailures : StartAnsible(failAt)
  \/ \E s \in Pipes : AnsibleWrites(s)
  \/ \E how \in ExitStatuses : AnsibleExits(how)
  \/ \E s \in Pipes : Scan(s)
  \/ \E s \in Pipes : ScanEnds(s)
  \/ Wait
  \/ DeployReturns
  \/ \E ok \in BOOLEAN : CreateLoad(ok)
  \/ \E how \in WriteOutcomes : CreateSave(how)
  \/ \E n \in DeleteNames, ok \in BOOLEAN : DeleteStart(n, ok)
  \/ \E ok \in BOOLEAN, ip \in IPs : DeleteGetInstanceInfo(ok, ip)
  \/ DeleteInstanceReturns
  \/ DeleteDiskReturns
  \/ \E how \in WriteOutcomes : DeleteSave(how)
  \/ \E ok \in BOOLEAN : List(ok)
  \/ Exit
  \/ SubmitOk
  \/ \E e \in SubmitErrors : SubmitFails(e)
  \/ \E e \in PollErrors, completed \in BOOLEAN : PollFails(e, completed)
  \/ \E status \in Statuses, opError \in BOOLEAN : Poll(status, opError)
  \/ \E ok \in BOOLEAN, ip \in IPs : GetCreated(ok, ip)

Spec == Init /\ [][Next]_vars

(* -------- one call of a provider function, run to its return ----------- *)
\* the record of the proxy of a zone, as Create persists it
RecordOf(location, zone, ip) ==
  ProxyRecord(ProxyName(zone), "gcp", reverseMap(location), zone, ProxyName(zone), ip,
              "instance", location)

\* the Commander has just called provider function f: CreateInstance in a first
\* Create, DeleteInstance in the Delete of the one proxy created, DeleteDisk after
\* that instance was deleted
Entered(f, location, zone, mtype, ip) ==
  LET n == ProxyName(zone)
      r == RecordOf(location, zone, ip)
      deleting == f # "CreateInstance"
  IN /\ file = IF deleting THEN Marshal(<<r>>) ELSE << >>
     /\ exists = deleting
     /\ cut = FALSE
     /\ instances = IF f = "DeleteInstance" THEN {<<zone, n>>} ELSE {}
     /\ disks = IF deleting THEN {<<zone, n>>} ELSE {}
     /\ pc = CASE f = "CreateInstance" -> "Create.CreateInstance"
               [] f = "DeleteInstance" -> "Delete.DeleteInstance"
               [] f = "DeleteDisk" -> "Delete.DeleteDisk"
     /\ cmd = IF deleting THEN "delete" ELSE "create"
     /\ name = n
     /\ selected = IF deleting THEN NoSelection
                    ELSE [region |-> reverseMap(location), zone |-> zone,
                          location |-> location, type |-> mtype]
     /\ created = NoInstance
     /\ records = IF f = "DeleteInstance" THEN <<r>> ELSE << >>
     /\ backing = IF deleting THEN <<r>> ELSE << >>
     /\ instanceRecord = IF deleting THEN 1 ELSE 0
     /\ info = IF deleting THEN [IP |-> ip, DiskID |-> BootDisk(zone, n)] ELSE NoInfo
     /\ diskRecord = IF f = "DeleteDisk" THEN DiskRecordOf(r, n, BootDisk(zone, n))
                      ELSE ZeroRecord
     /\ fn = f
     /\ arg = [zone |-> zone, id |-> n]
     /\ ppc = "submit"
     /\ attempt = 0
     /\ operation = NoOperation
     /\ perr = ""
     /\ pout = NoInstance
     /\ submits = 0
     /\ polls = 0
     /\ nonDone = 0
     /\ waits = << >>
     /\ lastErr = NoError
     /\ pollErr = NoError
     /\ dpc = "none"
     /\ sshAttempt = 0
     /\ sshReady = ""
     /\ started = FALSE
     /\ exited = ""
     /\ written = NoLines
     /\ pending = NoLines
     /\ scanning = NotScanning
     /\ derr = ""
     /\ now = 0
     /\ deadline = 0
     /\ dials = << >>
     /\ calls = CASE f = "CreateInstance" ->
                      <<Plain("ListRegions"), Plain("ListZones"), Plain("ListMachineTypes"),
                        Call("CreateInstance", zone, n)>>
                  [] f = "DeleteInstance" ->
                      <<Plain("Load"), Call("GetInstanceInfo", zone, n),
                        Call("DeleteInstance", zone, n)>>
                  [] f = "DeleteDisk" ->
                      <<Plain("Load"), Call("GetInstanceInfo", zone, n),
                        Call("DeleteInstance", zone, n),
                        Call("DeleteDisk", zone, BootDisk(zone, n))>>
     /\ saved = << >>
     /\ wrote = ""
     /\ file0 = IF deleting THEN <<r>> ELSE << >>
     /\ ret = ""
     /\ out = ""

ProviderInit ==
  \E f \in {"CreateInstance", "DeleteInstance", "DeleteDisk"} :
    \E location \in regionToLocations(Regions) :
      \E zone \in ListZones(reverseMap(location)), mtype \in MachineTypes, ip \in IPs :
        Entered(f, location, zone, mtype, ip)

\* the steps of the provider function
ProviderNext ==
  \/ SubmitOk
  \/ \E e \in SubmitErrors : SubmitFails(e)
  \/ \E e \in PollErrors, completed \in BOOLEAN : PollFails(e, completed)
  \/ \E status \in Statuses, opError \in BOOLEAN : Poll(status, opError)
  \/ \E ok \in BOOLEAN, ip \in IPs : GetCreated(ok, ip)

\* the function is sequential code that keeps running: while it has a step to
\* take, it takes one
ProviderSpec == ProviderInit /\ [][ProviderNext]_vars /\ WF_vars(ProviderNext)

(* ------- Delete on a collection of three records, to its return -------- *)
\* the record Create persists when its location prompt has failed: reverseMap[""]
\* is "", so Region and Location are empty
UnlabelledRecordOf(zone, ip) ==
  ProxyRecord(ProxyName(zone), "gcp", Empty, zone, ProxyName(zone), ip, "instance", Empty)

\* collections of three records the program comes to hold, a the record of e1-a,
\* b that of w2-b, u the unlabelled record of e1-a, d the disk record of e1-a:
\*   a b a   Create e1-a, Create w2-b, Delete proxy-e1a whose Save cannot open the
\*           file (the instance is gone, the file is as before), Create e1-a
\*   a d a   Create e1-a, that Delete, Create e1-a, Delete proxy-e1a whose
\*           DeleteDisk returns an error, Create e1-a
\*   d a b   Create e1-a, Delete proxy-e1a whose DeleteDisk returns an error,
\*           Create e1-a, Create w2-b
\*   a u b   Create e1-a, that first Delete, Create e1-a with the location prompt
\*           failing, Create w2-b
\*   a d b   as a d a up to the second Delete, then a Create of e1-a whose Save
\*           cannot open the file, Create w2-b
\* (a Create of e1-a after a failed DeleteDisk needs the disk gone: the poll of
\* the disk operation failed and the operation completed)
Collections(ip) ==
  LET a == RecordOf(regionToLocation(RegionE), ZoneEA, ip)
      b == RecordOf(regionToLocation(RegionW), ZoneWB, ip)
      u == UnlabelledRecordOf(ZoneEA, ip)
      d == DiskRecordOf(a, a.Name, BootDisk(a.Zone, a.InstanceID))
  IN {<<a, b, a>>, <<a, d, a>>, <<d, a, b>>, <<a, u, b>>, <<a, d, b>>}

\* the instances and the disks the provider holds beside such a collection: the
\* instance of e1-a with its boot disk, and of w2-b the instance with its disk, the
\* disk alone, or nothing
Clouds ==
  LET ka == <<ZoneEA, ProxyName(ZoneEA)>>
      kb == <<ZoneWB, ProxyName(ZoneWB)>>
  IN {<<{ka}, {ka}>>, <<{ka}, {ka, kb}>>, <<{ka, kb}, {ka, kb}>>}

\* main is about to read its command, proxy_records.json holds collection c and the
\* provider holds instances is and disks ds
Holding(c, is, ds) ==
  /\ file = Marshal(c)
  /\ exists = TRUE
  /\ cut = FALSE
  /\ instances = is
  /\ disks = ds
  /\ pc = "idle"
  /\ cmd = ""
  /\ name = Empty
  /\ selected = NoSelection
  /\ created = NoInstance
  /\ records = << >>
  /\ backing = << >>
  /\ instanceRecord = 0
  /\ info = NoInfo
  /\ diskRecord = ZeroRecord
  /\ fn = ""
  /\ arg = NoArg
  /\ ppc = "none"
  /\ attempt = 0
  /\ operation = NoOperation
  /\ perr = ""
  /\ pout = NoInstance
  /\ submits = 0
  /\ polls = 0
  /\ nonDone = 0
  /\ waits = << >>
  /\ lastErr = NoError
  /\ pollErr = NoError
  /\ dpc = "none"
  /\ sshAttempt = 0
  /\ sshReady = ""
  /\ started = FALSE
  /\ exited = ""
  /\ written = NoLines
  /\ pending = NoLines
  /\ scanning = NotScanning
  /\ derr = ""
  /\ now = 0
  /\ deadline = 0
  /\ dials = << >>
  /\ calls = << >>
  /\ saved = << >>
  /\ wrote = ""
  /\ file0 = << >>
  /\ ret = ""
  /\ out = ""

DeleteInit ==
  \E ip \in IPs : \E c \in Collections(ip), cl \in Clouds : Holding(c, cl[1], cl[2])

\* the delete command, the provider functions it calls, and the end of the process
DeleteNext ==
  \/ \E n \in DeleteNames, ok \in BOOLEAN : DeleteStart(n, ok)
  \/ \E ok \in BOOLEAN, ip \in IPs : DeleteGetInstanceInfo(ok, ip)
  \/ DeleteInstanceReturns
  \/ DeleteDiskReturns
  \/ \E how \in WriteOutcomes : DeleteSave(how)
  \/ Exit
  \/ SubmitOk
  \/ \E e \in SubmitErrors : SubmitFails(e)
  \/ \E e \in PollErrors, completed \in BOOLEAN : PollFails(e, completed)
  \/ \E status \in Statuses, opError \in BOOLEAN : Poll(status, opError)

DeleteSpec == DeleteInit /\ [][DeleteNext]_vars

(* --------- the single-file program: main, create, delete, list --------- *)
\* ProxyRecord of the single-file program, as its create case appends it;
\* selectedRegion is the label chosen in the region prompt
MonolithRecord ==
  [Name |-> name, Provider |-> "gcp", Region |-> selected.region, Zone |-> selected.zone,
   InstanceID |-> created.instanceID, IP |-> created.ip]

\* saveRecords: json.MarshalIndent by the json tags of that ProxyRecord
MonolithMarshal(rs) ==
  [i \in 1..Len(rs) |->
     [name |-> rs[i].Name, provider |-> rs[i].Provider, region |-> rs[i].Region,
      zone |-> rs[i].Zone, instance_id |-> rs[i].InstanceID, ip |-> rs[i].IP]]

\* loadRecords, whose error main drops: the records of the file, none when the file
\* does not exist, cannot be read, or holds a document cut short (the error of
\* json.Unmarshal is dropped too and records stays nil)
loadRecords(readable) ==
  IF exists /\ readable /\ ~cut
  THEN [i \in 1..Len(file) |->
          [Name |-> file[i].name, Provider |-> file[i].provider, Region |-> file[i].region,
           Zone |-> file[i].zone, InstanceID |-> file[i].instance_id, IP |-> file[i].ip]]
  ELSE << >>

\* the program before its first command: no file, no instance, no disk
MonolithInit == Init

\* main returns before its switch, or in the argument checks of case "delete"
MainFailures ==
  {"Usage: auto_proxy [create|delete|list]", "Error initializing GCP",
   "Error: Invalid delete command format.", "Error: Proxy name is required"}

\* main prints a usage or initialisation error and returns
MainFails(why) ==
  /\ pc = "idle"
  /\ pc' = "done"
  /\ out' = why
  /\ UNCHANGED <<store, cloud, locals, provider, providerHistory>>
  /\ UNCHANGED <<deployer, prober, calls, saved, wrote, file0, ret>>

MonolithListingFailures ==
  {"none", "ListRegions", "loadMappings", "ListZones", "ListMachineTypes"}

\* main, case "create", up to the call of CreateInstance: the prompts, the three
\* listings and loadMappings; the answer of the platform prompt is not used
MonolithCreate(failAt, location, zone, mtype) ==
  /\ pc = "idle"
  /\ Len(loadRecords(TRUE)) < MaxRecords
  /\ cmd' = "create"
  /\ file0' = loadRecords(TRUE)
  /\ UNCHANGED <<store, cloud, saved, wrote, deployer, prober, ret>>
  /\ UNCHANGED <<created, records, backing, instanceRecord, info, diskRecord>>
  /\ IF failAt = "ListRegions"
     THEN /\ calls' = <<Plain("ListRegions")>>
          /\ pc' = "done"
          /\ out' = "Error listing regions"
          /\ UNCHANGED <<name, selected, provider, providerHistory>>
     ELSE IF failAt = "loadMappings"
     THEN /\ calls' = <<Plain("ListRegions")>>
          /\ pc' = "done"
          /\ out' = "Error loading region mappings"
          /\ UNCHANGED <<name, selected, provider, providerHistory>>
     ELSE IF failAt = "ListZones"
     THEN /\ calls' = <<Plain("ListRegions"), Plain("ListZones")>>
          /\ pc' = "done"
          /\ out' = "Error listing zones"
          /\ selected' = [NoSelection EXCEPT !.region = location]
          /\ UNCHANGED <<name, provider, providerHistory>>
     ELSE IF failAt = "ListMachineTypes"
     THEN /\ calls' = <<Plain("ListRegions"), Plain("ListZones"), Plain("ListMachineTypes")>>
          /\ pc' = "done"
          /\ out' = "Error listing machine types"
          /\ selected' = [NoSelection EXCEPT !.region = location, !.zone = zone]
          /\ UNCHANGED <<name, provider, providerHistory>>
     ELSE /\ selected' = [region |-> location, zone |-> zone, location |-> Empty,
                          type |-> mtype]
          /\ name' = ProxyName(zone)
          /\ calls' = <<Plain("ListRegions"), Plain("ListZones"), Plain("ListMachineTypes"),
                        Call("CreateInstance", zone, ProxyName(zone))>>
          /\ Enter("CreateInstance", zone, ProxyName(zone))
          /\ pc' = "create.CreateInstance"
          /\ UNCHANGED out

\* a step of GCPProvider.CreateInstance of the single-file program, which has the
\* loops of the Commander's provider
MonolithCreateInstance ==
  /\ pc = "create.CreateInstance"
  /\ \/ SubmitOk
     \/ \E e \in SubmitErrors : SubmitFails(e)
     \/ \E e \in PollErrors, completed \in BOOLEAN : PollFails(e, completed)
     \/ \E status \in Statuses, opError \in BOOLEAN : Poll(status, opError)
     \/ \E ok \in BOOLEAN, ip \in IPs : GetCreated(ok, ip)

\* instanceID, ip, err := provider.CreateInstance(...); if err != nil { ...; return },
\* and the call of deployProxy
MonolithCreateInstanceReturns ==
  /\ pc = "create.CreateInstance"
  /\ ppc = "returned"
  /\ IF perr # ""
     THEN /\ pc' = "done"
          /\ out' = "Error creating instance"
          /\ UNCHANGED <<created, calls, dpc>>
          /\ UNCHANGED <<ppc, attempt, providerHistory>>
     ELSE /\ created' = pout
          /\ calls' = Append(calls, Plain("deployProxy"))
          /\ dpc' = "inventory"
          /\ pc' = "create.deployProxy"
          /\ Left
          /\ UNCHANGED out
  /\ UNCHANGED <<store, cloud, fn, arg, operation, perr, pout, saved, wrote, file0, ret>>
  /\ UNCHANGED <<sshAttempt, sshReady, started, exited, written, pending, scanning, derr, prober>>
  /\ UNCHANGED <<cmd, name, selected, records, backing, instanceRecord, info, diskRecord>>

\* deployProxy: os.WriteFile("playbook.yml", ...); if err != nil { return err }
MonolithWritePlaybook(ok) ==
  /\ dpc = "playbook"
  /\ IF ok THEN dpc' = "waitForSSH" /\ UNCHANGED derr ELSE DeployReturn("error")
  /\ UNCHANGED <<store, cloud, pc, locals, provider, providerHistory>>
  /\ UNCHANGED <<sshAttempt, sshReady, started, exited, written, pending, scanning>>
  /\ UNCHANGED <<prober, calls, saved, wrote, file0, ret, out>>

\* what a step of waitForSSH leaves alone
waitForSSHFrame ==
  <<store, cloud, pc, locals, provider, providerHistory, sshAttempt, started, exited,
    written, pending, scanning, derr, calls, saved, wrote, file0, ret, out>>

\* waitForSSH(host, port, timeout) is called: deadline := time.Now().Add(timeout); the
\* timeout, 60 seconds in deployProxy, is drawn from 1..MaxTimeout
waitForSSH(timeout) ==
  /\ dpc = "waitForSSH"
  /\ dpc' = "waitForSSH.loop"
  /\ deadline' = now + timeout
  /\ UNCHANGED <<now, dials, sshReady>>
  /\ UNCHANGED waitForSSHFrame

\* a loop condition that still holds at the deadline
NotAfter(t, d) == t <= d

\* time.Now().Before(deadline)
Before(t, d) == t < d

\* net.DialTimeout("tcp", ..., 2*time.Second), which returns after took seconds;
\* if err == nil { conn.Close(); return nil }
Dial(ok, took) ==
  /\ dpc = "waitForSSH.loop"
  /\ Before(now, deadline)
  /\ dials' = Append(dials, [at |-> now, ok |-> ok])
  /\ now' = now + took
  /\ IF ok
     THEN dpc' = "waitForSSH.returned" /\ sshReady' = "ready"
     ELSE dpc' = "waitForSSH.sleep" /\ UNCHANGED sshReady
  /\ UNCHANGED deadline
  /\ UNCHANGED waitForSSHFrame

\* time.Sleep(2 * time.Second)
Sleep ==
  /\ dpc = "waitForSSH.sleep"
  /\ now' = now + SleepInterval
  /\ dpc' = "waitForSSH.loop"
  /\ UNCHANGED <<deadline, dials, sshReady>>
  /\ UNCHANGED waitForSSHFrame

\* the loop ends: return fmt.Errorf("SSH not ready after %s", timeout)
TimedOut ==
  /\ dpc = "waitForSSH.loop"
  /\ ~Before(now, deadline)
  /\ dpc' = "waitForSSH.returned"
  /\ sshReady' = "not ready"
  /\ UNCHANGED <<now, deadline, dials>>
  /\ UNCHANGED waitForSSHFrame

\* deployProxy: err := waitForSSH(ip, 22, 60*time.Second); if err != nil { return
\* fmt.Errorf("SSH not ready: ...") }; the locals of waitForSSH are gone
waitForSSHReturns ==
  /\ dpc = "waitForSSH.returned"
  /\ IF sshReady = "ready" THEN dpc' = "start" /\ UNCHANGED derr ELSE DeployReturn("error")
  /\ now' = 0
  /\ deadline' = 0
  /\ dials' = << >>
  /\ UNCHANGED <<store, cloud, pc, locals, provider, providerHistory>>
  /\ UNCHANGED <<sshAttempt, sshReady, started, exited, written, pending, scanning>>
  /\ UNCHANGED <<calls, saved, wrote, file0, ret, out>>

\* main, case "create", after deployProxy: print the error and return, or
\* records, _ := loadRecords(), the append, saveRecords (its error dropped) and the
\* closing message
MonolithDeployReturns(readable, how) ==
  /\ pc = "create.deployProxy"
  /\ dpc = "returned"
  /\ pc' = "done"
  /\ IF derr # "nil"
     THEN /\ out' = "Error deploying proxy"
          /\ UNCHANGED <<store, records, saved, wrote, calls>>
     ELSE /\ records' = Append(loadRecords(readable), MonolithRecord)
          /\ calls' = calls \o <<Plain("loadRecords"), Plain("saveRecords")>>
          /\ WriteFile(MonolithMarshal(Append(loadRecords(readable), MonolithRecord)), how)
          /\ saved' = Append(saved, Append(loadRecords(readable), MonolithRecord))
          /\ out' = "Shadowsocks proxy created"
  /\ UNCHANGED <<cloud, cmd, name, selected, created, backing, instanceRecord, info>>
  /\ UNCHANGED <<diskRecord, provider, providerHistory, deployer, prober, file0, ret>>

\* main, case "list"
MonolithList(readable) ==
  /\ pc = "idle"
  /\ cmd' = "list"
  /\ file0' = loadRecords(TRUE)
  /\ calls' = <<Plain("loadRecords")>>
  /\ records' = loadRecords(readable)
  /\ pc' = "done"
  /\ out' = IF Len(loadRecords(readable)) = 0 THEN "No proxies found." ELSE "Name: ..."
  /\ UNCHANGED <<store, cloud, provider, providerHistory, saved, wrote, deployer, prober, ret>>
  /\ UNCHANGED <<name, selected, created, backing, instanceRecord, info, diskRecord>>

\* for i, r := range records { if r.Name == *deleteName {...; return} }: the index of
\* the first record of the name, 0 when there is none
FindNamed(rs, n) ==
  IF \E i \in 1..Len(rs) : rs[i].Name = n
  THEN CHOOSE i \in 1..Len(rs) : rs[i].Name = n /\ \A j \in 1..(i - 1) : rs[j].Name # n
  ELSE 0

\* main, case "delete", up to the call of DeleteInstance
MonolithDelete(n, readable) ==
  /\ pc = "idle"
  /\ cmd' = "delete"
  /\ name' = n
  /\ records' = loadRecords(readable)
  /\ file0' = loadRecords(TRUE)
  /\ instanceRecord' = FindNamed(loadRecords(readable), n)
  /\ IF FindNamed(loadRecords(readable), n) = 0
     THEN /\ pc' = "done"
          /\ out' = "Proxy not found"
          /\ UNCHANGED <<fn, arg, ppc>>
     ELSE LET r == loadRecords(readable)[FindNamed(loadRecords(readable), n)]
          IN /\ pc' = "delete.DeleteInstance"
             /\ fn' = "DeleteInstance"
             /\ arg' = [zone |-> r.Zone, id |-> r.InstanceID]
             /\ ppc' = "get"
             /\ UNCHANGED out
  /\ UNCHANGED <<store, cloud, selected, created, backing, info, diskRecord>>
  /\ UNCHANGED <<attempt, operation, perr, pout, providerHistory>>
  /\ UNCHANGED <<deployer, prober, calls, saved, wrote, ret>>

\* what a step of DeleteInstance leaves alone
DeleteInstanceFrame ==
  <<store, pc, cmd, name, selected, created, records, backing, instanceRecord,
    diskRecord, fn, pout, deployer, prober, saved, wrote, file0, ret, out>>

\* DeleteInstance, step 1: Instances.Get and the search for the boot disk
InstancesGet(ok, boot) ==
  /\ pc = "delete.DeleteInstance"
  /\ ppc = "get"
  /\ ok => Key(arg) \in instances
  /\ calls' = Append(calls, Call("Instances.Get", arg.zone, arg.id))
  /\ IF ~ok
     THEN ppc' = "returned" /\ perr' = "failed to get instance" /\ UNCHANGED info
     ELSE IF ~boot
     THEN ppc' = "returned" /\ perr' = "no boot disk found" /\ UNCHANGED info
     ELSE /\ ppc' = "instance.submit"
          /\ info' = [IP |-> "", DiskID |-> BootDisk(arg.zone, arg.id)]
          /\ UNCHANGED perr
  /\ UNCHANGED <<cloud, arg, attempt, operation, providerHistory>>
  /\ UNCHANGED DeleteInstanceFrame

\* the loop DeleteInstance is in: step 2 deletes the instance, step 3 the boot disk
InStep2 == ppc \in {"instance.submit", "instance.poll"}
InStep3 == ppc \in {"disk.submit", "disk.poll"}

\* the resource the running loop deletes
Resource == IF InStep2 THEN <<arg.zone, arg.id>> ELSE <<arg.zone, info.DiskID>>

\* the API call that submits its deletion
Deletion ==
  IF InStep2 THEN Call("Instances.Delete", arg.zone, arg.id)
  ELSE Call("Disks.Delete", arg.zone, info.DiskID)

\* whether the provider accepts it: the instance exists; the disk exists and no
\* instance uses it
MonolithAccepts ==
  IF InStep2 THEN Resource \in instances
  ELSE Resource \in disks /\ Resource \notin instances

\* the loop after step 2: step 3 starts with its own attempt and operation
ToStep3 ==
  /\ ppc' = "disk.submit"
  /\ attempt' = 0
  /\ polls' = 0
  /\ nonDone' = 0

\* op, err := ...Instances.Delete / Disks.Delete(...).Do() with err == nil
MonolithSubmitOk ==
  /\ InStep2 \/ InStep3
  /\ ppc \in {"instance.submit", "disk.submit"}
  /\ MonolithAccepts
  /\ calls' = Append(calls, Deletion)
  /\ submits' = submits + 1
  /\ ppc' = IF InStep2 THEN "instance.poll" ELSE "disk.poll"
  /\ UNCHANGED <<cloud, arg, info, attempt, operation, perr>>
  /\ UNCHANGED <<polls, nonDone, waits, lastErr, pollErr>>
  /\ UNCHANGED DeleteInstanceFrame

\* ... with err != nil: sleep and continue when retryable, return otherwise. The
\* loop of step 2 that has used up its attempts is followed by step 3; after the
\* loop of step 3 comes the return "failed to delete instance after 5 retries"
MonolithSubmitFails(e) ==
  /\ ppc \in {"instance.submit", "disk.submit"}
  /\ calls' = Append(calls, Deletion)
  /\ submits' = submits + 1
  /\ lastErr' = e
  /\ IF Retryable(e)
     THEN /\ waits' = Append(waits, Backoff(attempt))
          /\ IF LoopContinues(attempt + 1)
             THEN attempt' = attempt + 1 /\ UNCHANGED <<ppc, perr, polls, nonDone>>
             ELSE IF InStep2
             THEN ToStep3 /\ UNCHANGED perr
             ELSE /\ ppc' = "returned"
                  /\ perr' = "retries exhausted"
                  /\ attempt' = attempt + 1
                  /\ UNCHANGED <<polls, nonDone>>
     ELSE /\ ppc' = "returned"
          /\ perr' = "non-retryable error"
          /\ UNCHANGED <<waits, attempt, polls, nonDone>>
  /\ UNCHANGED <<cloud, arg, info, operation, pollErr>>
  /\ UNCHANGED DeleteInstanceFrame

\* the provider's resources once the running loop's operation has completed
InstancesDeleted == IF InStep2 THEN instances \ {Resource} ELSE instances
DisksDeleted == IF InStep3 THEN disks \ {Resource} ELSE disks

\* operation, err := ...ZoneOperations.Get(...).Do() with err != nil
MonolithPollFails(e, completed) ==
  /\ ppc \in {"instance.poll", "disk.poll"}
  /\ polls' = polls + 1
  /\ pollErr' = e
  /\ ppc' = "returned"
  /\ perr' = "failed to check operation status"
  /\ instances' = IF completed THEN InstancesDeleted ELSE instances
  /\ disks' = IF completed THEN DisksDeleted ELSE disks
  /\ UNCHANGED <<arg, info, attempt, operation, calls>>
  /\ UNCHANGED <<submits, nonDone, waits, lastErr>>
  /\ UNCHANGED DeleteInstanceFrame

\* ... with err == nil: on DONE an error when operation.Error is set, else step 3
\* after step 2 and return nil after step 3; sleep 2 seconds and poll again otherwise
MonolithPoll(status, opError) ==
  /\ ppc \in {"instance.poll", "disk.poll"}
  /\ status # "DONE" => (~opError /\ nonDone < MaxPending)
  /\ operation' = [Status |-> status, Error |-> opError]
  /\ instances' = IF status = "DONE" /\ ~opError THEN InstancesDeleted ELSE instances
  /\ disks' = IF status = "DONE" /\ ~opError THEN DisksDeleted ELSE disks
  /\ IF IsDone(status)
     THEN IF OperationFailed(opError)
          THEN /\ ppc' = "returned" /\ perr' = "operation failed"
               /\ polls' = polls + 1
               /\ UNCHANGED <<attempt, nonDone>>
          ELSE IF InStep2
               THEN ToStep3 /\ UNCHANGED perr
               ELSE /\ ppc' = "returned" /\ perr' = ""
                    /\ polls' = polls + 1
                    /\ UNCHANGED <<attempt, nonDone>>
     ELSE /\ polls' = polls + 1
          /\ nonDone' = nonDone + 1
          /\ UNCHANGED <<ppc, perr, attempt>>
  /\ UNCHANGED <<arg, info, calls, submits, waits, lastErr, pollErr>>
  /\ UNCHANGED DeleteInstanceFrame

\* main, case "delete", after DeleteInstance: print the error and return, or remove
\* the record, saveRecords (its error dropped) and print
MonolithDeleteReturns(how) ==
  /\ pc = "delete.DeleteInstance"
  /\ ppc = "returned"
  /\ pc' = "done"
  /\ IF perr # ""
     THEN /\ out' = "Error deleting instance"
          /\ UNCHANGED <<store, records, saved, wrote>>
     ELSE /\ records' = RemoveAt(records, instanceRecord)
          /\ WriteFile(MonolithMarshal(RemoveAt(records, instanceRecord)), how)
          /\ saved' = Append(saved, RemoveAt(records, instanceRecord))
          /\ out' = "Proxy deleted"
  /\ UNCHANGED <<cloud, cmd, name, selected, created, backing, instanceRecord, info>>
  /\ UNCHANGED <<diskRecord, provider, providerHistory, deployer, prober, calls, file0, ret>>

MonolithNext ==
  \/ \E why \in MainFailures : MainFails(why)
  \/ \E failAt \in MonolithListingFailures :
       \E location \in Answers(regionToLocations(Regions), Empty) :
         \E zone \in Answers(ListZones(reverseMap(location)), Empty) :
           \E mtype \in Answers(MachineTypes, "") :
             MonolithCreate(failAt, location, zone, mtype)
  \/ MonolithCreateInstance
  \/ MonolithCreateInstanceReturns
  \/ \E ok \in BOOLEAN : WriteInventory(ok)
  \/ \E ok \in BOOLEAN : MonolithWritePlaybook(ok)
  \/ \E timeout \in 1..MaxTimeout : waitForSSH(timeout)
  \/ \E ok \in BOOLEAN, took \in 0..DialTimeout : Dial(ok, took)
  \/ Sleep
  \/ TimedOut
  \/ waitForSSHReturns
  \/ \E failAt \in StartFailures : StartAnsible(failAt)
  \/ \E s \in Pipes : AnsibleWrites(s)
  \/ \E how \in ExitStatuses : AnsibleExits(how)
  \/ \E s \in Pipes : Scan(s)
  \/ \E s \in Pipes : ScanEnds(s)
  \/ Wait
  \/ \E readable \in BOOLEAN, how \in WriteOutcomes : MonolithDeployReturns(readable, how)
  \/ \E readable \in BOOLEAN : MonolithList(readable)
  \/ \E n \in DeleteNames, readable \in BOOLEAN : MonolithDelete(n, readable)
  \/ \E ok \in BOOLEAN, boot \in BOOLEAN : InstancesGet(ok, boot)
  \/ MonolithSubmitOk
  \/ \E e \in SubmitErrors : MonolithSubmitFails(e)
  \/ \E e \in PollErrors, completed \in BOOLEAN : MonolithPollFails(e, completed)
  \/ \E status \in Statuses, opError \in BOOLEAN : MonolithPoll(status, opError)
  \/ \E how \in WriteOutcomes : MonolithDeleteReturns(how)
  \/ Exit

MonolithSpec == MonolithInit /\ [][MonolithNext]_vars

(* ------------------------------ properties ----------------------------- *)
Called(f) == \E i \in 1..Len(calls) : calls[i].f = f

HasInstanceRecord(c, n) == \E i \in 1..Len(c) : c[i].Name = n /\ c[i].Type = "instance"

\* the disk-kind records of collection c whose resource identifier is d
DiskRecordsOf(c, d) == {i \in 1..Len(c) : c[i].Type = "disk" /\ c[i].InstanceID = d}

ProviderFunctions == {"CreateInstance", "DeleteInstance", "DeleteDisk"}

\* DeleteInstance has returned nil to the running Delete
InstanceDeletionSucceeded ==
  /\ cmd = "delete"
  /\ \/ fn = "DeleteDisk"
     \/ fn = "DeleteInstance" /\ ppc = "returned" /\ perr = ""

\* DeleteInstance has returned an error to the running Delete
InstanceDeletionFailed ==
  cmd = "delete" /\ fn = "DeleteInstance" /\ ppc = "returned" /\ perr # ""

\* DeleteDisk has returned an error to the running Delete
DiskDeletionFailed ==
  cmd = "delete" /\ fn = "DeleteDisk" /\ ppc = "returned" /\ perr # ""

\* the record the running Delete found when it started
TargetRecord == file0[CHOOSE i \in 1..Len(file0) :
                        /\ file0[i].Name = name /\ file0[i].Type = "instance"
                        /\ \A j \in 1..(i - 1) :
                             ~(file0[j].Name = name /\ file0[j].Type = "instance")]

\* C1: once a Delete whose instance deletion succeeded has returned, the boot disk
\* of the deleted instance is gone from the provider or a disk-kind record with its
\* identifier is in the collection the Delete handed to Save.
C1_NoForgottenDisk ==
  (pc = "done" /\ InstanceDeletionSucceeded) =>
    LET r == TargetRecord
        d == BootDisk(r.Zone, r.InstanceID)
    IN \/ <<r.Zone, d>> \notin disks
       \/ /\ Len(saved) = 1
          /\ DiskRecordsOf(saved[1], d) # {}

\* C2: the persisted collection never holds two instance-kind records with one name.
C2_OneInstancePerName ==
  \A i, j \in 1..Len(Persisted) :
    (/\ i # j
     /\ Persisted[i].Type = "instance"
     /\ Persisted[j].Type = "instance") => Persisted[i].Name # Persisted[j].Name

\* C3: once Deploy has returned an error to Create, Create has returned an error,
\* has called neither Load nor Save, and the persisted collection is the one it
\* started from.
C3_DeployFailureLeavesStore ==
  (cmd = "create" /\ derr = "error" /\ pc # "Create.Deploy") =>
    /\ pc = "done"
    /\ ret = "error deploying proxy"
    /\ ~Called("Load")
    /\ ~Called("Save")
    /\ saved = << >>
    /\ Persisted = file0

C3_Witness ==
  /\ cmd = "create"
  /\ derr = "error"
  /\ pc = "done"
  /\ Len(file0) > 0

\* C4: when a Delete whose instance deletion succeeded and whose disk deletion
\* failed has saved its collection, that collection holds no instance-kind record
\* of the name and exactly one disk-kind record with the discovered boot-disk
\* identifier, and the Delete returned nil.
C4_PartialTeardown ==
  (/\ pc = "done"
   /\ InstanceDeletionSucceeded
   /\ DiskDeletionFailed
   /\ wrote = "ok") =>
    /\ ~HasInstanceRecord(saved[1], name)
    /\ Cardinality(DiskRecordsOf(saved[1], info.DiskID)) = 1
    /\ ret = "nil"

\* C5: after DeleteInstance has returned an error, the Delete calls neither
\* DeleteDisk nor Save and returns, and the persisted collection is the one it
\* started from, the instance record included.
C5_FailedInstanceDeletionAborts ==
  InstanceDeletionFailed =>
    /\ pc \in {"Delete.DeleteInstance", "done"}
    /\ perr \in {"non-retryable error", "retries exhausted",
                 "failed to check operation status", "operation failed"}
    /\ ~Called("DeleteDisk")
    /\ ~Called("Save")
    /\ saved = << >>
    /\ Persisted = file0
    /\ HasInstanceRecord(Persisted, name)
    /\ pc = "done" => out = "Failed to delete instance"

C5_Witness ==
  /\ pc = "done"
  /\ InstanceDeletionFailed
  /\ perr = "retries exhausted"

\* C6: a Delete whose loaded collection holds no instance-kind record of the name
\* prints not-found and returns after its Load alone: no provider call, no Save,
\* the persisted collection as it was.
C6_NotFoundIsNoOp ==
  (/\ cmd = "delete"
   /\ ret # "error loading records"
   /\ ~HasInstanceRecord(file0, name)) =>
    /\ pc = "done"
    /\ out = "Proxy not found"
    /\ ret = "nil"
    /\ calls = <<Plain("Load")>>
    /\ fn = ""
    /\ saved = << >>
    /\ Persisted = file0

C6_Witness ==
  /\ cmd = "delete"
  /\ pc = "done"
  /\ out = "Proxy not found"
  /\ \E i \in 1..Len(file0) : file0[i].Name = name /\ file0[i].Type = "disk"

\* C7: while every submission of a provider function has failed with a status of
\* 500 or more, the k-th wait lasted 2^(k-1) seconds; the fifth such failure and
\* no earlier one makes the function return retries-exhausted, without any poll.
C7_RetryCeilingAndBackoff ==
  (fn \in ProviderFunctions /\ submits > 0 /\ Len(waits) = submits) =>
    /\ submits <= 5
    /\ waits = SubSeq(<<1, 2, 4, 8, 16>>, 1, submits)
    /\ polls = 0
    /\ IF submits = 5
       THEN ppc = "returned" /\ perr = "retries exhausted"
       ELSE ppc = "submit" /\ perr = ""

C7_Witness ==
  /\ fn = "DeleteDisk"
  /\ ppc = "returned"
  /\ perr = "retries exhausted"
  /\ submits = 5
  /\ waits = <<1, 2, 4, 8, 16>>

\* C8: once a submission has failed with a status below 500 or with no status, the
\* provider function has returned the non-retryable error: no wait followed that
\* submission, no submission and no poll came after it.
C8_FatalSubmissionError ==
  (/\ fn \in ProviderFunctions
   /\ lastErr # NoError
   /\ ~(lastErr.google /\ lastErr.code >= 500)) =>
    /\ ppc = "returned"
    /\ perr = "non-retryable error"
    /\ Len(waits) = submits - 1
    /\ attempt = submits - 1
    /\ polls = 0
    /\ operation = NoOperation

C8_Witness ==
  /\ fn = "CreateInstance"
  /\ lastErr = GoogleErr(499)
  /\ submits = 3
  /\ ppc = "returned"

\* the operation wait of the running provider function has ended in success
WaitSucceeded ==
  /\ fn \in ProviderFunctions
  /\ \/ ppc = "get"
     \/ ppc = "returned" /\ perr \in {"", "failed to get instance info"}

\* C9: the operation wait has succeeded only if its latest poll reported DONE with
\* no error and every poll before it reported another status (n + 1 polls for n
\* such statuses); while it waits, no poll has reported DONE.
C9_WaitEndsOnDone ==
  /\ WaitSucceeded =>
       /\ operation = [Status |-> "DONE", Error |-> FALSE]
       /\ polls = nonDone + 1
  /\ ppc = "poll" =>
       /\ operation.Status # "DONE"
       /\ polls = nonDone

C9_Witness ==
  /\ WaitSucceeded
  /\ fn = "DeleteInstance"
  /\ nonDone = 3
  /\ polls = 4

\* C10: once the creation operation has reported DONE with an error, CreateInstance
\* has returned a failure after its one accepted submission, and Create calls
\* neither Deploy nor Load nor Save and returns an error.
C10_FailedOperationStopsCreate ==
  (/\ cmd = "create"
   /\ operation = [Status |-> "DONE", Error |-> TRUE]) =>
    /\ ppc = "returned"
    /\ perr = "operation failed"
    /\ submits = Len(waits) + 1
    /\ pc \in {"Create.CreateInstance", "done"}
    /\ ~Called("Deploy")
    /\ ~Called("Load")
    /\ ~Called("Save")
    /\ derr = ""
    /\ saved = << >>
    /\ Persisted = file0
    /\ pc = "done" => ret = "error creating instance"

C10_Witness ==
  /\ cmd = "create"
  /\ pc = "done"
  /\ operation = [Status |-> "DONE", Error |-> TRUE]
  /\ submits = 2

\* Save was called by the running command and returned an error
SaveFailed == wrote \notin {"", "ok"}

\* C11: a command that has returned after one of its steps failed (CreateInstance,
\* Deploy, DeleteInstance, Save) returned the error of that step; a failed
\* instance deletion in particular is not returned as nil.
C11_FailedStepsSurface ==
  pc = "done" =>
    /\ (cmd = "create" /\ fn = "CreateInstance" /\ perr # "") =>
         ret = "error creating instance"
    /\ (cmd = "create" /\ derr = "error") => ret = "error deploying proxy"
    /\ SaveFailed => ret = "error saving records"
    /\ InstanceDeletionFailed => ret \notin {"", "nil"}

\* C12: once the SSH loop of Deploy has ended with the host never reachable,
\* ansible-playbook is not started, Deploy returns an error, and Create saves no
\* collection and leaves the persisted one as it was.
C12_NotReadyStopsDeploy ==
  sshReady = "not ready" =>
    /\ ~started
    /\ (dpc = "returned" => derr = "error")
    /\ saved = << >>
    /\ Persisted = file0

\* C13: once Deploy has returned from a run of ansible-playbook, the process has
\* exited, no line it wrote is unread in either pipe, and neither scanning
\* goroutine is running.
C13_DeployReturnsAfterDrain ==
  (started /\ dpc = "returned") =>
    /\ exited # ""
    /\ \A s \in Pipes : pending[s] = 0 /\ ~scanning[s]

\* the disk-deletion step of the running Delete is over: DeleteDisk has returned, or
\* it was skipped for want of a boot-disk identifier
DiskStepOver ==
  \/ fn = "DeleteDisk" /\ ppc = "returned"
  \/ fn = "DeleteInstance" /\ ~HasBootDisk(info)

\* C14: a Delete calls Save at most once, and only after DeleteInstance has returned
\* nil and the disk-deletion step is over; a Delete that has returned after a
\* successful instance deletion has called it exactly once.
C14_DeleteSavesOnce ==
  cmd = "delete" =>
    /\ Len(saved) <= 1
    /\ saved # << >> => (InstanceDeletionSucceeded /\ DiskStepOver)
    /\ (pc = "done" /\ InstanceDeletionSucceeded) =>
         (Len(saved) = 1 /\ calls[Len(calls)] = Plain("Save"))
    /\ Len(saved) = Cardinality({i \in 1..Len(calls) : calls[i] = Plain("Save")})

C14_Witness ==
  /\ cmd = "delete"
  /\ pc = "done"
  /\ InstanceDeletionSucceeded
  /\ DiskDeletionFailed
  /\ Len(saved) = 1

\* GetInstanceInfo has failed in the running Delete
InfoFailed ==
  cmd = "delete" /\ Called("GetInstanceInfo") /\ info = NoInfo

\* the collection c without its first instance-kind record named n
WithoutInstance(c, n) == RemoveAt(c, FindInstance(c, n))

\* C15: a Delete whose GetInstanceInfo failed has called DeleteInstance and never
\* calls DeleteDisk; once its DeleteInstance has returned nil it goes on to Save, and
\* the collection it saves is the one it loaded without the instance record.
C15_InfoFailureSkipsDisk ==
  InfoFailed =>
    /\ Called("DeleteInstance")
    /\ ~Called("DeleteDisk")
    /\ (InstanceDeletionSucceeded /\ pc # "Delete.DeleteInstance") =>
         /\ pc \in {"Delete.Save", "done"}
         /\ records = WithoutInstance(file0, name)
         /\ pc = "done" => saved = <<WithoutInstance(file0, name)>>

C15_Witness ==
  /\ InfoFailed
  /\ InstanceDeletionSucceeded
  /\ pc = "done"
  /\ Len(file0) = 2
  /\ Persisted = WithoutInstance(file0, name)

\* how many disk-kind records collection c holds
NumDisks(c) == Cardinality({i \in 1..Len(c) : c[i].Type = "disk"})

\* the collections the running command has built: records and those it saved
Built == {records} \cup {saved[i] : i \in 1..Len(saved)}

\* C16: a collection built by a command holds more disk-kind records than the
\* command loaded only in a Delete whose DeleteDisk returned an error, and then one
\* more; no Create, and no Delete whose DeleteDisk returned nil or was not called,
\* builds one.
C16_DiskRecordOnlyOnFailedDiskDeletion ==
  \A c \in Built :
    /\ NumDisks(c) <= NumDisks(file0) + 1
    /\ NumDisks(c) > NumDisks(file0) => DiskDeletionFailed

C16_Witness ==
  /\ pc = "done"
  /\ DiskDeletionFailed
  /\ Len(saved) = 1
  /\ NumDisks(saved[1]) = NumDisks(file0) + 1

\* C17: a Create that started from the empty collection and returned nil has
\* persisted exactly one record, of kind instance, with its name and the address
\* CreateInstance returned; a Delete of that name that started from such a
\* one-record collection and in which no step failed has persisted the empty
\* collection.
C17_CreateThenDeleteRoundTrip ==
  pc = "done" =>
    /\ (cmd = "create" /\ ret = "nil" /\ file0 = << >>) =>
         /\ pout.ip \in IPs
         /\ Persisted = <<ProxyRecord(name, "gcp", selected.region, selected.zone,
                                      pout.instanceID, pout.ip, "instance",
                                      selected.location)>>
    /\ (/\ cmd = "delete" /\ ret = "nil"
        /\ Len(file0) = 1 /\ IsInstanceNamed(file0[1], name)
        /\ ~InfoFailed /\ ~InstanceDeletionFailed
        /\ ~DiskDeletionFailed /\ ~SaveFailed) =>
         /\ Persisted = << >>
         /\ out = "Proxy deleted"

C17_Witness ==
  /\ pc = "done"
  /\ cmd = "delete"
  /\ Len(file0) = 1
  /\ file0[1].IP \in IPs
  /\ InstanceDeletionSucceeded
  /\ fn = "DeleteDisk" /\ perr = ""
  /\ exists /\ Persisted = << >>

\* the steps of Create after its listings, in the order of the code
CreateSteps == <<"CreateInstance", "Deploy", "Load", "Save">>

\* the calls of those steps the running command has made
StepsCalled == SelectSeq(calls, LAMBDA c : \E k \in 1..Len(CreateSteps) : c.f = CreateSteps[k])

\* C18: in a Create, CreateInstance, Deploy, Load and Save are called in this order,
\* each at most once; CreateInstance returns nil only after an accepted submission
\* whose operation was polled to DONE without error and after the address was
\* fetched; Deploy is called only after CreateInstance returned nil, and Load and
\* Save only after Deploy returned nil.
C18_CreateStepOrder ==
  cmd = "create" =>
    /\ Len(StepsCalled) <= Len(CreateSteps)
    /\ \A k \in 1..Len(StepsCalled) : StepsCalled[k].f = CreateSteps[k]
    /\ (fn = "CreateInstance" /\ ppc = "returned" /\ perr = "") =>
         /\ submits = Len(waits) + 1
         /\ polls >= 1
         /\ Key(arg) \in instances
    /\ Called("Deploy") =>
         /\ fn = "CreateInstance" /\ perr = ""
         /\ operation = [Status |-> "DONE", Error |-> FALSE]
         /\ pout.ip \in IPs
         /\ created = pout
    /\ (Called("Load") \/ Called("Save") \/ saved # << >>) =>
         (dpc = "returned" /\ derr = "nil")

C18_Witness ==
  /\ cmd = "create"
  /\ pc = "done"
  /\ Called("Save")
  /\ started
  /\ Len(file0) = 1

\* C19: while proxy_records.json does not exist, no command returns a load error:
\* a List that has returned printed "No proxies found." and returned nil, a Delete
\* that has returned printed "Proxy not found" and returned nil, and a Create that
\* has loaded holds the empty collection and saves the one holding its record only.
C19_MissingFileIsEmpty ==
  ~exists =>
    /\ ret # "error loading records"
    /\ (pc = "done" /\ cmd = "list") =>
         (ret = "nil" /\ out = "No proxies found." /\ records = << >>)
    /\ (pc = "done" /\ cmd = "delete") =>
         (ret = "nil" /\ out = "Proxy not found" /\ saved = << >>)
    /\ (cmd = "create" /\ Called("Load")) =>
         /\ pc \in {"Create.Save", "done"}
         /\ pc = "Create.Save" => records = << >>
         /\ pc = "done" => (records = <<NewRecord>> /\ saved = <<records>>)

C19_Witness ==
  /\ ~exists
  /\ cmd = "create"
  /\ Called("Load")
  /\ pc = "done"
  /\ saved = <<(<<NewRecord>>)>>

\* the call of DeleteDisk the running Delete has made
DeleteDiskCall == calls[CHOOSE i \in 1..Len(calls) : calls[i].f = "DeleteDisk"]

\* C20: a Delete that has called DeleteDisk has passed it the zone of the instance
\* record it found, and its diskRecord carries the provider, region, zone and
\* location of that record.
C20_DiskStepUsesTargetRecord ==
  (cmd = "delete" /\ Called("DeleteDisk")) =>
    /\ DeleteDiskCall.zone = TargetRecord.Zone
    /\ diskRecord.Provider = TargetRecord.Provider
    /\ diskRecord.Region = TargetRecord.Region
    /\ diskRecord.Zone = TargetRecord.Zone
    /\ diskRecord.Location = TargetRecord.Location

\* C21: once Deploy has returned nil, ansible-playbook was started and has exited
\* with status 0, so a Create that saves a collection does so for a configured host.
C21_DeploySuccessMeansConfigured ==
  /\ (dpc = "returned" /\ derr = "nil") => (started /\ exited = "ok")
  /\ (cmd = "create" /\ saved # << >>) => (started /\ exited = "ok")

\* C22: once a status poll of CreateInstance, DeleteInstance or DeleteDisk has
\* returned an error, whatever its code and however many attempts are left, the
\* function has returned "failed to check operation status": that poll was its
\* last call, after the one accepted submission.
C22_PollErrorIsFatal ==
  (fn \in ProviderFunctions /\ pollErr # NoError) =>
    /\ ppc = "returned"
    /\ perr = "failed to check operation status"
    /\ polls = nonDone + 1
    /\ submits = Len(waits) + 1
    /\ pc \in {"Create.CreateInstance", "done"} => pout = NoInstance

C22_Witness ==
  /\ fn = "DeleteDisk"
  /\ pollErr = GoogleErr(503)
  /\ attempt = 0
  /\ nonDone = 1
  /\ ppc = "returned"

\* the position in file0 of the record the running Delete found when it started
TargetIndex == CHOOSE i \in 1..Len(file0) :
                 /\ file0[i].Name = name /\ file0[i].Type = "instance"
                 /\ \A j \in 1..(i - 1) :
                      ~(file0[j].Name = name /\ file0[j].Type = "instance")

\* collection c without its i-th record, the others as they were and in their order
Removed(c, i) == [j \in 1..(Len(c) - 1) |-> IF j < i THEN c[j] ELSE c[j + 1]]

\* a is a prefix of b
IsPrefix(a, b) == Len(a) <= Len(b) /\ SubSeq(b, 1, Len(a)) = a

\* C25: the collection a Delete saves is the one it loaded without the first
\* instance-kind record of the name, every other record unchanged and in its place,
\* followed by at most one more record, which is of kind disk.
C25_DeleteFrame ==
  (cmd = "delete" /\ saved # << >>) =>
    LET rest == Removed(file0, TargetIndex)
        s == saved[1]
    IN /\ IsPrefix(rest, s)
       /\ Len(s) <= Len(rest) + 1
       /\ Len(s) = Len(rest) + 1 => s[Len(s)].Type = "disk"

\* a Delete of the first of three records, the other two being a disk-kind record
\* of the same name and one more record, has saved them and a new disk record
C25_Witness ==
  /\ cmd = "delete"
  /\ pc = "done"
  /\ Len(saved) = 1
  /\ Len(file0) = 3
  /\ TargetIndex = 1
  /\ file0[2].Type = "disk" /\ file0[2].Name = name
  /\ file0[3] # file0[2]
  /\ Len(saved[1]) = 3

\* the disk-kind records of collection c, in their order
DiskRecords(c) == SelectSeq(c, LAMBDA r : r.Type = "disk")

\* the running Delete was given a name that has a disk-kind record and no
\* instance-kind record, and loaded the collection
OnlyDiskRecordNamed ==
  /\ cmd = "delete"
  /\ ret # "error loading records"
  /\ \E i \in 1..Len(file0) : file0[i].Type = "disk" /\ file0[i].Name = name
  /\ ~HasInstanceRecord(file0, name)

\* C26: no step of any command removes or alters a persisted disk-kind record: the
\* disk-kind records persisted before the step are, in their order, the first of
\* those persisted after it; and a Delete of a name that has only a disk-kind
\* record prints "Proxy not found" and returns nil, having called no provider
\* function and saved nothing.
C26_DiskRecordsStay ==
  /\ [][IsPrefix(DiskRecords(Persisted), DiskRecords(Persisted'))]_vars
  /\ [](OnlyDiskRecordNamed =>
          /\ pc = "done" /\ ret = "nil" /\ out = "Proxy not found"
          /\ ~Called("DeleteDisk") /\ ~Called("DeleteInstance")
          /\ saved = << >>)

\* C28: once Save has succeeded in a command, what Load returns is exactly the
\* collection handed to Save, whatever was persisted when the command started.
C28_SaveLoadRoundTrip ==
  (pc = "done" /\ Called("Save") /\ ret = "nil") =>
    /\ exists
    /\ Unmarshal(file) = saved[Len(saved)]
    /\ ~LoadError(TRUE)

C28_Witness ==
  /\ pc = "done"
  /\ cmd = "delete"
  /\ ret = "nil"
  /\ Len(file0) = 2
  /\ saved = <<(<<file0[2]>>)>>
  /\ Persisted = <<file0[2]>>

\* C27: a call of CreateInstance, DeleteInstance or DeleteDisk makes at most 5
\* submissions; it leaves its status-poll loop only on a DONE status or on a poll
\* error, so an operation that stays non-DONE without a poll error keeps it there;
\* and with every operation reporting DONE or a poll failing after finitely many
\* polls, the call returns.
C27_ProviderCallsTerminate ==
  /\ [](fn \in ProviderFunctions => submits <= maxRetries)
  /\ [][(ppc = "poll" /\ ppc' # "poll") =>
          (operation'.Status = "DONE" \/ pollErr' # NoError)]_vars
  /\ (fn \in ProviderFunctions /\ ppc # "returned") ~> (ppc = "returned")

C27_Witness ==
  /\ fn = "DeleteDisk"
  /\ ppc = "returned"
  /\ perr = ""
  /\ submits = maxRetries
  /\ nonDone = MaxPending
  /\ operation.Status = "DONE"

\* C23: every connection attempt of waitForSSH begins before the deadline, and
\* after a failed one the next begins at least 2 seconds later; once it has
\* returned, it returned nil exactly when its last attempt succeeded and the
\* not-ready error otherwise; so with a timeout of t seconds it makes at most
\* t / 2 attempts, rounded up: at most 3 for 6.
C23_ReadinessProbe ==
  /\ \A i \in 1..Len(dials) : dials[i].at < deadline
  /\ \A i \in 2..Len(dials) :
       ~dials[i - 1].ok /\ dials[i].at >= dials[i - 1].at + SleepInterval
  /\ dpc = "waitForSSH.returned" =>
       /\ sshReady \in {"ready", "not ready"}
       /\ sshReady = "ready" <=> (dials # << >> /\ dials[Len(dials)].ok)
  /\ dpc \in {"waitForSSH.loop", "waitForSSH.sleep", "waitForSSH.returned"} =>
       /\ SleepInterval * Len(dials) <= deadline + 1
       /\ deadline = 6 => Len(dials) <= 3

C23_Witness ==
  /\ dpc = "waitForSSH.returned"
  /\ sshReady = "not ready"
  /\ deadline = 6
  /\ Len(dials) = 3

\* the submission of step 2 of the single-file DeleteInstance has failed on all 5
\* attempts with a retryable error: its fifth backoff sleep was made
InstanceRetriesExhausted ==
  /\ cmd = "delete"
  /\ fn = "DeleteInstance"
  /\ Len(waits) >= maxRetries
  /\ waits[maxRetries] = Backoff(maxRetries - 1)

\* C24: once the instance deletion of the single-file DeleteInstance has failed on
\* all 5 attempts with status 500 or more, the function has returned the
\* retries-exhausted error without a Disks.Delete call, and main keeps the record.
C24_ExhaustedInstanceDeletionSkipsDisk ==
  InstanceRetriesExhausted =>
    /\ ppc = "returned"
    /\ perr = "retries exhausted"
    /\ \A i \in 1..Len(calls) : calls[i].f # "Disks.Delete"
    /\ pc = "done" => (saved = << >> /\ out = "Error deleting instance")

====
